---------------------------- MODULE Spec2Model ----------------------------
(***************************************************************************)
(* State-machine model of the cardiac health platform:                     *)
(*   - the alert table and its operations (database/clinical_service.py,   *)
(*     database/demo_data.py),                                             *)
(*   - the Fitbit OAuth session kept in st.session_state                   *)
(*     (wearable_integration/fitbit_auth.py),                              *)
(*   - the Fitbit sync loop (app.py sync_real_fitbit_data over             *)
(*     wearable_integration/fitbit_data.py and                             *)
(*     database/database_service.py).                                      *)
(* Optional values (Python None) are sequences: <<>> is None, <<v>> is v.  *)
(***************************************************************************)
EXTENDS Integers, Sequences, FiniteSets, TLC

VARIABLES
    now,          \* the wall clock, in ticks of TickSeconds seconds
    alerts,       \* the patientalert table: rows in insertion order, id = index
    last,         \* the last ClinicalService call on alerts and what it returned
    evalPc,       \* concurrent create_alert callers: where each one is
    evalLocal,    \* concurrent create_alert callers: the row each one holds
    session,      \* st.session_state: a dict, a key is present iff in its DOMAIN
    issued,       \* the provider: how many token bundles it has issued
    gvtPc,        \* callers of get_valid_token: where each one is
    gvtLocal,     \* callers of get_valid_token: the locals of a call in progress
    gvtRet,       \* callers of get_valid_token: what the last call returned
    syncPc,       \* sync_real_fitbit_data: the fetch it is about to make
    sync,         \* sync_real_fitbit_data: its arguments, locals and outcome
    syncRuns,     \* how many syncs have been started
    faults,       \* the environment: how many requests and stores it has failed
    wearable,     \* the wearabledata table, rows in insertion order
    biomarkers,   \* the calculatedbiomarker table, rows in insertion order
    stErrors,     \* the st.error messages of the current sync
    calls,        \* the provider GETs of the current sync, with their answers
    assignments,  \* the clinicianpatient table, rows in insertion order
    summary,      \* show_dashboard: the health summary it has read
    status        \* show_dashboard: the status it shows for each metric

alertVars == <<alerts, last>>
evalVars == <<evalPc, evalLocal>>
authVars == <<session, issued, gvtPc, gvtLocal, gvtRet>>
syncVars == <<syncPc, sync, syncRuns, faults, wearable, biomarkers, stErrors, calls>>
viewVars == <<assignments, summary, status>>
vars == <<now, alerts, last, evalPc, evalLocal, session, issued, gvtPc, gvtLocal, gvtRet,
          syncPc, sync, syncRuns, faults, wearable, biomarkers, stErrors, calls,
          assignments, summary, status>>

-----------------------------------------------------------------------------
(* Bounds of the model *)

MaxTicks == 1
MaxAlerts == 2
NumCallers == 2
MaxTokens == 2
MaxDays == 3
MaxSyncs == 2
MaxFaults == 1
MaxAssignments == 2
MaxSamples == 2
MaxHeartRate == 301

-----------------------------------------------------------------------------
(* Optional values *)

None == <<>>
Some(v) == <<v>>

\* dict.get(k, default) on a dict modelled as a function
Get(d, k, default) == IF k \in DOMAIN d THEN d[k] ELSE default

-----------------------------------------------------------------------------
(* The clock: time.time() / datetime.utcnow() *)

Tick ==
    /\ now < MaxTicks
    /\ now' = now + 1
    /\ UNCHANGED <<viewVars, alertVars, evalVars, authVars, syncVars>>

-----------------------------------------------------------------------------
(* Alerts: data_models/database_models.py PatientAlert,                    *)
(*         database/clinical_service.py                                    *)

\* The patient table in select order (demo_data.py creates the patients first)
PatientTable == <<"p1", "p2">>

Patients == {PatientTable[i] : i \in DOMAIN PatientTable}

Clinicians == {"demo_clinician_001", "demo_clinician"}
ResolutionNotes == {None, Some("Resolved via dashboard")}

\* The alert_data dicts callers pass to create_alert
AlertInputs ==
    { [patient_id |-> "p1", alert_type |-> "high_heart_rate",
       severity |-> "critical", title |-> "High heart rate",
       trigger_value |-> 130, normal_range |-> "60-100"],
      [patient_id |-> "p2", alert_type |-> "low_hrv",
       title |-> "Low HRV", trigger_value |-> 20] }

\* PatientAlert(**alert_data): the row with the model's field defaults
PatientAlert(alert_data, t) ==
    [ patient_id       |-> alert_data.patient_id,
      alert_type       |-> alert_data.alert_type,
      severity         |-> Get(alert_data, "severity", "medium"),
      title            |-> alert_data.title,
      created_at       |-> t,
      is_resolved      |-> Get(alert_data, "is_resolved", FALSE),
      resolved_at      |-> None,
      resolved_by      |-> None,
      resolution_notes |-> None,
      trigger_value    |-> IF "trigger_value" \in DOMAIN alert_data
                           THEN Some(alert_data.trigger_value) ELSE None,
      normal_range     |-> IF "normal_range" \in DOMAIN alert_data
                           THEN Some(alert_data.normal_range) ELSE None ]

\* session.add(alert); session.commit(): the row is appended, its id is fresh
InsertAlert(table, row) == Append(table, row)

\* ClinicalService.create_alert
create_alert(table, alert_data, t) == InsertAlert(table, PatientAlert(alert_data, t))

CreateAlert(alert_data) ==
    /\ Len(alerts) < MaxAlerts
    /\ alerts' = create_alert(alerts, alert_data, now)
    /\ last' = [op |-> "create_alert", id |-> Len(alerts) + 1, ret |-> "alert"]
    /\ UNCHANGED <<now, viewVars, evalVars, authVars, syncVars>>

\* session.get(PatientAlert, alert_id)
GetAlert(table, alert_id) == IF alert_id \in DOMAIN table THEN Some(alert_id) ELSE None

\* resolve_alert that flips is_resolved instead of setting it
resolve_alert_toggles(table, alert_id, resolved_by, notes, t) ==
    IF alert_id \in DOMAIN table
    THEN [table EXCEPT ![alert_id] =
            [@ EXCEPT !.is_resolved = ~@,
                      !.resolved_at = Some(t),
                      !.resolved_by = Some(resolved_by),
                      !.resolution_notes = notes]]
    ELSE table

\* resolve_alert that marks the row resolved and stamps nothing
resolve_alert_unstamped(table, alert_id, resolved_by, notes, t) ==
    IF alert_id \in DOMAIN table
    THEN [table EXCEPT ![alert_id] = [@ EXCEPT !.is_resolved = TRUE]]
    ELSE table

\* ClinicalService.resolve_alert: the table after the call
resolve_alert(table, alert_id, resolved_by, notes, t) ==
    IF GetAlert(table, alert_id) # None
    THEN [table EXCEPT ![alert_id] =
            [@ EXCEPT !.is_resolved = TRUE,
                      !.resolved_at = Some(t),
                      !.resolved_by = Some(resolved_by),
                      !.resolution_notes = notes]]
    ELSE table

ResolveAlert(alert_id, resolved_by, notes) ==
    /\ alerts' = resolve_alert(alerts, alert_id, resolved_by, notes, now)
    /\ last' = [op |-> "resolve_alert", id |-> alert_id,
                ret |-> IF GetAlert(alerts, alert_id) # None THEN "alert" ELSE "None"]
    /\ UNCHANGED <<now, viewVars, evalVars, authVars, syncVars>>

\* demo_data.py create_demo_clinical_data, lines 85-100: one alert for each of
\* the first two patients, whatever alerts exist already
DemoAlertData(p) ==
    [patient_id |-> p, alert_type |-> "high_heart_rate", severity |-> "high",
     title |-> "Elevated Resting Heart Rate", trigger_value |-> 85,
     normal_range |-> "60-100 bpm"]

RECURSIVE AddDemoAlerts(_, _, _)
AddDemoAlerts(table, patients, t) ==
    IF patients = <<>> THEN table
    ELSE AddDemoAlerts(InsertAlert(table, PatientAlert(DemoAlertData(Head(patients)), t)),
                       Tail(patients), t)

create_demo_clinical_data(table, t) ==
    AddDemoAlerts(table, SubSeq(PatientTable, 1, 2), t)

CreateDemoClinicalData ==
    /\ Len(alerts) + 2 <= MaxAlerts
    /\ alerts' = create_demo_clinical_data(alerts, now)
    /\ last' = [op |-> "create_demo_clinical_data", id |-> 0, ret |-> "None"]
    /\ UNCHANGED <<now, viewVars, evalVars, authVars, syncVars>>

-----------------------------------------------------------------------------
(* Clinician assignments and the active alerts of a clinician:             *)
(* database/clinical_service.py                                            *)

\* The clinician of the assignments (demo_data.py line 78, app.py line 342)
AssignedClinicians == {"demo_clinician_001"}

\* ClinicianPatient(...): the row of an assignment
ClinicianPatient(clinician_id, patient_id, is_primary, t) ==
    [clinician_id |-> clinician_id, patient_id |-> patient_id,
     assigned_date |-> t, is_primary |-> is_primary]

\* ClinicalService.assign_patient_to_clinician: the row is added, whatever
\* assignments exist already
assign_patient_to_clinician(table, patient_id, clinician_id, is_primary, t) ==
    Append(table, ClinicianPatient(clinician_id, patient_id, is_primary, t))

AssignPatient(patient_id, clinician_id, is_primary) ==
    /\ Len(assignments) < MaxAssignments
    /\ assignments' = assign_patient_to_clinician(assignments, patient_id,
                                                  clinician_id, is_primary, now)
    /\ UNCHANGED <<now, summary, status, alertVars, evalVars, authVars, syncVars>>

\* The clinician_id arguments of get_active_alerts: None, or a clinician
FetchScopes == {None} \cup {Some(c) : c \in AssignedClinicians}

\* How many rows the join with ClinicianPatient yields for an alert
JoinedRows(assignTable, clinician_id, patient_id) ==
    Cardinality({ i \in DOMAIN assignTable :
                    /\ assignTable[i].clinician_id = clinician_id
                    /\ assignTable[i].patient_id = patient_id })

\* n times the id
RECURSIVE Repeat(_, _)
Repeat(id, n) == IF n = 0 THEN <<>> ELSE <<id>> \o Repeat(id, n - 1)

\* get_active_alerts that leaves out the is_resolved test of the scoped query
RECURSIVE get_active_alerts_unfiltered(_, _, _, _)
get_active_alerts_unfiltered(alertTable, assignTable, clinician_id, n) ==
    IF n = 0 THEN <<>>
    ELSE (IF clinician_id # None
          THEN Repeat(n, JoinedRows(assignTable, clinician_id[1], alertTable[n].patient_id))
          ELSE IF ~alertTable[n].is_resolved THEN <<n>> ELSE <<>>)
         \o get_active_alerts_unfiltered(alertTable, assignTable, clinician_id, n - 1)

\* ClinicalService.get_active_alerts: the ids of the rows of the query, over
\* the first n alerts, latest created_at first (ids grow with created_at).
\* The scoped query joins the assignments: an alert comes once for each
\* assignment of its patient to the clinician.
RECURSIVE get_active_alerts(_, _, _, _)
get_active_alerts(alertTable, assignTable, clinician_id, n) ==
    IF n = 0 THEN <<>>
    ELSE (IF alertTable[n].is_resolved THEN <<>>
          ELSE IF clinician_id # None
          THEN Repeat(n, JoinedRows(assignTable, clinician_id[1], alertTable[n].patient_id))
          ELSE <<n>>)
         \o get_active_alerts(alertTable, assignTable, clinician_id, n - 1)

GetActiveAlerts(clinician_id) ==
    /\ last' = [op |-> "get_active_alerts", id |-> 0, ret |-> "alerts",
                clinician_id |-> clinician_id,
                rows |-> get_active_alerts(alerts, assignments, clinician_id, Len(alerts))]
    /\ UNCHANGED <<now, viewVars, alerts, evalVars, authVars, syncVars>>

-----------------------------------------------------------------------------
(* Concurrent callers of create_alert, each with its own ClinicalService   *)
(* (its own database session): the row is built and added to the session,  *)
(* then committed.  The code has no check for an open alert in between.    *)

Callers == 1..NumCallers

EvalAdd(w, alert_data) ==
    /\ evalPc[w] = "idle"
    /\ evalLocal' = [evalLocal EXCEPT ![w] = Some(PatientAlert(alert_data, now))]
    /\ evalPc' = [evalPc EXCEPT ![w] = "added"]
    /\ UNCHANGED <<now, viewVars, alertVars, authVars, syncVars>>

EvalCommit(w) ==
    /\ evalPc[w] = "added"
    /\ alerts' = InsertAlert(alerts, evalLocal[w][1])
    /\ last' = [op |-> "create_alert", id |-> Len(alerts) + 1, ret |-> "alert"]
    /\ evalPc' = [evalPc EXCEPT ![w] = "done"]
    /\ UNCHANGED <<now, viewVars, evalLocal, authVars, syncVars>>

-----------------------------------------------------------------------------
(* The Fitbit session: wearable_integration/fitbit_auth.py FitbitAuth over  *)
(* st.session_state                                                         *)

BufferSeconds == 300
DefaultExpiresIn == 28800
TickSeconds == BufferSeconds

\* time.time(), in seconds
Time(t) == t * TickSeconds

\* d with d[k] = v (st.session_state[k] = v)
Put(d, k, v) == [x \in DOMAIN d \cup {k} |-> IF x = k THEN v ELSE d[x]]

\* d without the keys ks (del st.session_state[k] where k is present)
Del(d, ks) == [x \in DOMAIN d \ ks |-> d[x]]

EmptyDict == [x \in {} |-> TRUE]

\* The token bundles the provider answers with: the n-th bundle, with or
\* without a refresh_token, with or without expires_in
TokenBundles(n) ==
    { [access_token |-> n, refresh_token |-> n, expires_in |-> BufferSeconds],
      [access_token |-> n, refresh_token |-> n],
      [access_token |-> n, expires_in |-> BufferSeconds] }

\* FitbitAuth.get_authorization_url, line 28: the state is kept in the session
get_authorization_url(sess, state) == Put(sess, "oauth_state", state)

GetAuthorizationUrl(state) ==
    /\ session' = get_authorization_url(session, state)
    /\ UNCHANGED <<now, viewVars, alertVars, evalVars, issued, gvtPc, gvtLocal, gvtRet, syncVars>>

\* fetch_token that sets the connected flag and stores no token
StoreFetchedToken_flag_only(sess, token, t) == Put(sess, "fitbit_connected", TRUE)

\* FitbitAuth.fetch_token, lines 47-50: the three keys are stored together
StoreFetchedToken(sess, token, t) ==
    Put(Put(Put(sess, "fitbit_token", token),
            "fitbit_connected", TRUE),
        "token_expires_at", Time(t) + Get(token, "expires_in", DefaultExpiresIn))

\* The state kept by get_authorization_url: st.session_state.get('oauth_state')
SessionState(sess) == IF "oauth_state" \in DOMAIN sess THEN Some(sess.oauth_state) ELSE None

\* The query parameters of an authorization response
ResponseState(response) == IF "state" \in DOMAIN response THEN Some(response.state) ELSE None

\* oauth.fetch_token's reading of the authorization response, lines 33-45: it
\* raises when the session was built with a state and the response does not
\* carry that state, and when the response carries no code
ResponseAccepted(state, response) ==
    /\ state # None => ResponseState(response) = state
    /\ "code" \in DOMAIN response

\* FitbitAuth.fetch_token: resp is the token the provider exchanges the code
\* for, or None when it rejects the code; an exception of oauth.fetch_token
\* is caught and nothing is stored
fetch_token(sess, authorization_response, resp, t) ==
    IF ResponseAccepted(SessionState(sess), authorization_response) /\ resp # None
    THEN StoreFetchedToken(sess, resp[1], t)
    ELSE sess

FetchToken(authorization_response, resp) ==
    /\ resp # None => issued < MaxTokens
    /\ session' = fetch_token(session, authorization_response, resp, now)
    /\ issued' = issued + (IF session' # session THEN 1 ELSE 0)
    /\ UNCHANGED <<now, viewVars, alertVars, evalVars, gvtPc, gvtLocal, gvtRet, syncVars>>

\* FitbitAuth.is_authenticated when no refresh is due: the flag is set and
\* get_valid_token returns the stored token
is_authenticated(sess) ==
    Get(sess, "fitbit_connected", FALSE) /\ "fitbit_token" \in DOMAIN sess

\* The query parameters the app may be opened with
CallbackParams ==
    { [code |-> "code1"],
      [code |-> "code1", state |-> "state1"],
      [code |-> "code1", state |-> "forged"],
      [state |-> "state1"] }

\* app.py show_fitbit_integration, line 1069: the authorization response the
\* app hands to fetch_token is built from the code alone
AuthorizationResponse(query_params) == [code |-> query_params.code]

\* app.py show_fitbit_integration, lines 1064-1073: the OAuth callback
OAuthCallback(query_params, resp) ==
    /\ "code" \in DOMAIN query_params
    /\ ~is_authenticated(session)
    /\ FetchToken(AuthorizationResponse(query_params), resp)

\* revoke_access that drops the connected flag and keeps the token
revoke_access_keeps_token(sess) == Del(sess, {"fitbit_connected"})

\* FitbitAuth.revoke_access
revoke_access(sess) ==
    Del(sess, {"fitbit_token", "fitbit_connected", "token_expires_at"})

RevokeAccess ==
    /\ session' = revoke_access(session)
    /\ UNCHANGED <<now, viewVars, alertVars, evalVars, issued, gvtPc, gvtLocal, gvtRet, syncVars>>

\* FitbitAuth.get_valid_token, line 104: the token expires in less than 5 minutes
NeedsRefresh(sess, t) ==
    Time(t) > Get(sess, "token_expires_at", 0) - BufferSeconds

\* FitbitAuth.refresh_token, lines 59-66: the refresh_token to post, or None
\* when the call returns None before any request
RefreshRequest(sess) ==
    IF "fitbit_token" \notin DOMAIN sess THEN None
    ELSE IF "refresh_token" \notin DOMAIN sess.fitbit_token THEN None
    ELSE Some(sess.fitbit_token.refresh_token)

\* refresh_token that stores the new token and leaves the expiry
RefreshStore_token_only(sess, resp, t) ==
    IF resp # None THEN Put(sess, "fitbit_token", resp[1]) ELSE sess

\* FitbitAuth.refresh_token, lines 82-93: resp is the new token of a 200
\* answer, or None for any other status and for a network error
RefreshStore(sess, resp, t) ==
    IF resp # None
    THEN Put(Put(sess, "fitbit_token", resp[1]),
             "token_expires_at", Time(t) + Get(resp[1], "expires_in", DefaultExpiresIn))
    ELSE sess

\* Python's `a or b` on optional tokens (a token dict is never falsy here)
Or(a, b) == IF a # None THEN a ELSE b

\* FitbitAuth.get_valid_token, line 105: refresh_token() or token
RefreshedOrToken(refreshed, token) == Or(refreshed, Some(token))

TokenCallers == 1..NumCallers

\* get_valid_token up to its return, or up to the POST of refresh_token
GvtCall(c) ==
    /\ gvtPc[c] = "idle"
    /\ IF "fitbit_token" \notin DOMAIN session
       THEN /\ gvtRet' = [gvtRet EXCEPT ![c] = None]
            /\ UNCHANGED <<gvtPc, gvtLocal>>
       ELSE IF ~NeedsRefresh(session, now)
       THEN /\ gvtRet' = [gvtRet EXCEPT ![c] = Some(session.fitbit_token)]
            /\ UNCHANGED <<gvtPc, gvtLocal>>
       ELSE IF RefreshRequest(session) = None
       THEN /\ gvtRet' = [gvtRet EXCEPT ![c] = RefreshedOrToken(None, session.fitbit_token)]
            /\ UNCHANGED <<gvtPc, gvtLocal>>
       ELSE /\ gvtPc' = [gvtPc EXCEPT ![c] = "posting"]
            /\ gvtLocal' = [gvtLocal EXCEPT ![c] =
                              Some([token |-> session.fitbit_token,
                                    refresh_token |-> RefreshRequest(session)[1]])]
            /\ UNCHANGED gvtRet
    /\ UNCHANGED <<now, viewVars, alertVars, evalVars, session, issued, syncVars>>

\* the answer to the POST of refresh_token, and get_valid_token's return
GvtResponse(c, resp) ==
    /\ gvtPc[c] = "posting"
    /\ session' = RefreshStore(session, resp, now)
    /\ gvtRet' = [gvtRet EXCEPT ![c] = RefreshedOrToken(resp, gvtLocal[c][1].token)]
    /\ gvtPc' = [gvtPc EXCEPT ![c] = "idle"]
    /\ gvtLocal' = [gvtLocal EXCEPT ![c] = None]
    /\ UNCHANGED <<now, viewVars, alertVars, evalVars, syncVars>>

RefreshAnswered(c, resp) ==
    /\ resp # None => issued < MaxTokens
    /\ GvtResponse(c, resp)
    /\ issued' = issued + (IF resp # None THEN 1 ELSE 0)

-----------------------------------------------------------------------------
(* The Fitbit client: wearable_integration/fitbit_data.py FitbitDataService *)

\* FitbitAuth.get_valid_token as one step: resp answers the POST of
\* refresh_token when one is made.  The session after it, and the return value.
get_valid_token(sess, t, resp) ==
    IF "fitbit_token" \notin DOMAIN sess
    THEN [session |-> sess, ret |-> None]
    ELSE IF ~NeedsRefresh(sess, t)
    THEN [session |-> sess, ret |-> Some(sess.fitbit_token)]
    ELSE IF RefreshRequest(sess) = None
    THEN [session |-> sess, ret |-> RefreshedOrToken(None, sess.fitbit_token)]
    ELSE [session |-> RefreshStore(sess, resp, t),
          ret |-> RefreshedOrToken(resp, sess.fitbit_token)]

\* What the provider holds for each date (0 is today, -1 yesterday, ...); it
\* does not change between syncs.
IntradayDataset(date) ==
    CASE date = 0  -> << [time |-> 0, value |-> 72], [time |-> 1, value |-> 75] >>
      [] date = -1 -> << [time |-> 1, value |-> 130] >>
      [] date = -2 -> << [time |-> 0, value |-> 64] >>
      [] OTHER     -> << >>

RestingHeartRate(date) ==
    CASE date = 0  -> Some(62)
      [] date = -2 -> Some(58)
      [] OTHER     -> None

Steps(date) ==
    CASE date = 0  -> 5000
      [] date = -1 -> 3000
      [] OTHER     -> 0

\* The JSON of a 200 answer
ProviderJson(endpoint, date) ==
    CASE endpoint = "heart_intraday" ->
            [intraday |-> IntradayDataset(date), heart |-> << [dateTime |-> date] >>]
      [] endpoint = "heart" ->
            [heart |-> << [dateTime |-> date, restingHeartRate |-> RestingHeartRate(date)] >>]
      [] endpoint = "activity" ->
            [summary |-> [steps |-> Steps(date), caloriesOut |-> 2000]]

Answers == {"200", "401", "429", "500", "network_error"}

\* make_api_call's st.error for an answer that is not 200
AnswerError(answer) ==
    CASE answer = "401" -> "Authentication expired"
      [] answer = "429" -> "Rate limit exceeded"
      [] answer = "500" -> "API Error"
      [] answer = "network_error" -> "Network error"

\* FitbitDataService.make_api_call: headers, one GET, the answer's branch.
\* The session after it, the JSON returned (None otherwise), the st.error
\* messages, and the GETs issued.
make_api_call(sess, t, resp, endpoint, date, answer) ==
    LET tok == get_valid_token(sess, t, resp) IN
    IF tok.ret = None
    THEN [session |-> tok.session, data |-> None,
          errors |-> <<"Not authenticated with Fitbit">>, gets |-> <<>>]
    ELSE [session |-> tok.session,
          data |-> IF answer = "200" THEN Some(ProviderJson(endpoint, date)) ELSE None,
          errors |-> IF answer = "200" THEN <<>> ELSE <<AnswerError(answer)>>,
          gets |-> << [endpoint |-> endpoint, date |-> date, answer |-> answer,
                       access_token |-> tok.ret[1].access_token] >>]

\* FitbitDataService._parse_heart_rate_data: the rows of the DataFrame
RECURSIVE ParseDataset(_, _)
ParseDataset(dataset, date) ==
    IF dataset = <<>> THEN <<>>
    ELSE <<[datetime |-> <<date, Head(dataset).time>>, value |-> Head(dataset).value]>>
         \o ParseDataset(Tail(dataset), date)

parse_heart_rate_data(data) ==
    IF data.intraday # <<>> /\ data.heart # <<>>
    THEN ParseDataset(data.intraday, data.heart[1].dateTime)
    ELSE <<>>

\* FitbitDataService.get_heart_rate_intraday: the DataFrame's rows, or None
get_heart_rate_intraday(data) ==
    IF data # None THEN Some(parse_heart_rate_data(data[1])) ELSE None

\* FitbitDataService.get_resting_heart_rate
get_resting_heart_rate(data) ==
    IF data # None /\ data[1].heart # <<>>
    THEN data[1].heart[1].restingHeartRate
    ELSE None

-----------------------------------------------------------------------------
(* The sync: app.py sync_real_fitbit_data over                              *)
(* database/database_service.py add_wearable_data and add_biomarker         *)

SyncPatients == {"p1"}

\* app.py line 1181: the date of a day_offset, as days relative to today
SyncDate(day_offset) == 0 - day_offset

\* app.py lines 1187-1192: the wearable_data dicts of a heart rate DataFrame
RECURSIVE HeartRateRows(_, _)
HeartRateRows(patient_id, hr_rows) ==
    IF hr_rows = <<>> THEN <<>>
    ELSE <<[patient_id |-> patient_id, timestamp |-> Head(hr_rows).datetime,
            heart_rate |-> Some(Head(hr_rows).value), steps |-> None,
            calories |-> None, source |-> "fitbit"]>>
         \o HeartRateRows(patient_id, Tail(hr_rows))

\* app.py lines 1185-1194
HeartRateInserts(patient_id, hr_data) ==
    IF hr_data # None /\ hr_data[1] # <<>>
    THEN HeartRateRows(patient_id, hr_data[1])
    ELSE <<>>

\* BiomarkerInserts without the test of resting_hr: a day without a resting
\* heart rate gets a biomarker of value 0
BiomarkerInserts_unconditional(patient_id, resting_hr, t) ==
    <<[patient_id |-> patient_id, biomarker_type |-> "resting_heart_rate",
       value |-> IF resting_hr # None THEN resting_hr[1] ELSE 0,
       timestamp |-> t, unit |-> "bpm"]>>

\* app.py lines 1198-1207: resting_hr is falsy when None or 0
BiomarkerInserts(patient_id, resting_hr, t) ==
    IF resting_hr # None /\ resting_hr[1] # 0
    THEN <<[patient_id |-> patient_id, biomarker_type |-> "resting_heart_rate",
            value |-> resting_hr[1], timestamp |-> t, unit |-> "bpm"]>>
    ELSE <<>>

\* app.py lines 1211-1222
ActivityInserts(patient_id, activity, date) ==
    IF activity # None /\ activity[1].summary.steps > 0
    THEN <<[patient_id |-> patient_id, timestamp |-> <<date, 0>>,
            heart_rate |-> None, steps |-> Some(activity[1].summary.steps),
            calories |-> Some(activity[1].summary.caloriesOut), source |-> "fitbit"]>>
    ELSE <<>>

\* DatabaseService.add_wearable_data / add_biomarker, row after row: each add
\* commits, so the first k rows stay when the (k+1)-th add raises
AddRows(table, rows, k) == table \o SubSeq(rows, 1, k)

\* Whether get_valid_token posts a refresh request
RefreshPosted(sess, t) ==
    /\ "fitbit_token" \in DOMAIN sess
    /\ NeedsRefresh(sess, t)
    /\ RefreshRequest(sess) # None

\* Answers and store failures the environment may still produce; a new token
\* only answers a refresh request
MayAnswer(resp, answer) ==
    /\ answer = "200" \/ faults < MaxFaults
    /\ resp # None => (RefreshPosted(session, now) /\ issued < MaxTokens)
    /\ issued' = issued + (IF resp # None THEN 1 ELSE 0)
StoredCounts(rows) == {Len(rows)} \cup (IF faults < MaxFaults THEN 0..(Len(rows) - 1) ELSE {})

SyncStart(patient_id, days) ==
    /\ syncPc \in {"idle", "done"}
    /\ syncRuns < MaxSyncs
    /\ syncRuns' = syncRuns + 1
    /\ sync' = [patient_id |-> patient_id, days |-> days, day_offset |-> 0,
                saved_count |-> 0, outcome |-> "running"]
    /\ syncPc' = "heart_intraday"
    /\ stErrors' = <<>>
    /\ calls' = <<>>
    /\ UNCHANGED <<now, viewVars, alertVars, evalVars, authVars, faults, wearable, biomarkers>>

\* app.py lines 1226-1227: any exception ends the sync
SyncRaised(errors) ==
    /\ syncPc' = "done"
    /\ stErrors' = stErrors \o errors \o <<"Error syncing Fitbit data">>

\* app.py lines 1184-1194
SyncHeartRate(resp, answer) ==
    /\ syncPc = "heart_intraday"
    /\ MayAnswer(resp, answer)
    /\ LET date == SyncDate(sync.day_offset)
           r == make_api_call(session, now, resp, "heart_intraday", date, answer)
           rows == HeartRateInserts(sync.patient_id, get_heart_rate_intraday(r.data))
       IN  /\ session' = r.session
           /\ calls' = calls \o r.gets
           /\ \E k \in StoredCounts(rows) :
                /\ wearable' = AddRows(wearable, rows, k)
                /\ faults' = faults + (IF r.gets # <<>> /\ answer # "200" THEN 1 ELSE 0)
                                    + (IF k < Len(rows) THEN 1 ELSE 0)
                /\ IF k < Len(rows)
                   THEN /\ SyncRaised(r.errors)
                        /\ sync' = [sync EXCEPT !.saved_count = @ + k, !.outcome = "error"]
                   ELSE /\ syncPc' = "heart"
                        /\ stErrors' = stErrors \o r.errors
                        /\ sync' = [sync EXCEPT !.saved_count = @ + k]
    /\ UNCHANGED <<now, viewVars, alertVars, evalVars, gvtPc, gvtLocal, gvtRet,
                   syncRuns, biomarkers>>

\* app.py lines 1196-1207
SyncRestingHeartRate(resp, answer) ==
    /\ syncPc = "heart"
    /\ MayAnswer(resp, answer)
    /\ LET date == SyncDate(sync.day_offset)
           r == make_api_call(session, now, resp, "heart", date, answer)
           rows == BiomarkerInserts(sync.patient_id, get_resting_heart_rate(r.data), now)
       IN  /\ session' = r.session
           /\ calls' = calls \o r.gets
           /\ \E k \in StoredCounts(rows) :
                /\ biomarkers' = AddRows(biomarkers, rows, k)
                /\ faults' = faults + (IF r.gets # <<>> /\ answer # "200" THEN 1 ELSE 0)
                                    + (IF k < Len(rows) THEN 1 ELSE 0)
                /\ IF k < Len(rows)
                   THEN /\ SyncRaised(r.errors)
                        /\ sync' = [sync EXCEPT !.outcome = "error"]
                   ELSE /\ syncPc' = "activity"
                        /\ stErrors' = stErrors \o r.errors
                        /\ UNCHANGED sync
    /\ UNCHANGED <<now, viewVars, alertVars, evalVars, gvtPc, gvtLocal, gvtRet,
                   syncRuns, wearable>>

\* SyncActivity that goes back to the first fetch of the same day
SyncActivity_same_day(resp, answer) ==
    /\ syncPc = "activity"
    /\ MayAnswer(resp, answer)
    /\ LET date == SyncDate(sync.day_offset)
           r == make_api_call(session, now, resp, "activity", date, answer)
       IN  /\ session' = r.session
           /\ calls' = calls \o r.gets
           /\ faults' = faults + (IF r.gets # <<>> /\ answer # "200" THEN 1 ELSE 0)
           /\ stErrors' = stErrors \o r.errors
           /\ syncPc' = "heart_intraday"
    /\ UNCHANGED <<now, viewVars, alertVars, evalVars, gvtPc, gvtLocal, gvtRet,
                   syncRuns, biomarkers, wearable, sync>>

\* app.py lines 1209-1224: the last fetch of a day, then the next day or the end
SyncActivity(resp, answer) ==
    /\ syncPc = "activity"
    /\ MayAnswer(resp, answer)
    /\ LET date == SyncDate(sync.day_offset)
           r == make_api_call(session, now, resp, "activity", date, answer)
           rows == ActivityInserts(sync.patient_id, r.data, date)
       IN  /\ session' = r.session
           /\ calls' = calls \o r.gets
           /\ \E k \in StoredCounts(rows) :
                /\ wearable' = AddRows(wearable, rows, k)
                /\ faults' = faults + (IF r.gets # <<>> /\ answer # "200" THEN 1 ELSE 0)
                                    + (IF k < Len(rows) THEN 1 ELSE 0)
                /\ IF k < Len(rows)
                   THEN /\ SyncRaised(r.errors)
                        /\ sync' = [sync EXCEPT !.saved_count = @ + k, !.outcome = "error"]
                   ELSE /\ stErrors' = stErrors \o r.errors
                        /\ IF sync.day_offset + 1 < sync.days
                           THEN /\ syncPc' = "heart_intraday"
                                /\ sync' = [sync EXCEPT !.saved_count = @ + k,
                                                        !.day_offset = @ + 1]
                           ELSE /\ syncPc' = "done"
                                /\ sync' = [sync EXCEPT !.saved_count = @ + k,
                                                        !.day_offset = @ + 1,
                                                        !.outcome = "success"]
    /\ UNCHANGED <<now, viewVars, alertVars, evalVars, gvtPc, gvtLocal, gvtRet,
                   syncRuns, biomarkers>>

-----------------------------------------------------------------------------
(* The status of a metric: config/settings.py BIOMARKER_THRESHOLDS and       *)
(* app.py show_dashboard                                                   *)

\* Settings.BIOMARKER_THRESHOLDS: for each metric, the intervals of each tier
BIOMARKER_THRESHOLDS ==
    [ resting_heart_rate |->
          [normal   |-> << <<60, 100>> >>,
           warning  |-> << <<50, 60>>, <<100, 120>> >>,
           critical |-> << <<0, 50>>, <<120, 300>> >>],
      hrv_rmssd |->
          [normal |-> << <<30, 100>> >>,
           low    |-> << <<0, 30>> >>,
           high   |-> << <<100, 300>> >>],
      heart_rate_recovery |->
          [good |-> << <<18, 50>> >>,
           poor |-> << <<0, 18>> >>] ]

\* Python's truth value of an optional number: None and 0 are falsy
Truthy(x) == x # None /\ x[1] # 0

\* app.py show_dashboard, line 757
hr_status(latest_hr) ==
    IF Truthy(latest_hr) /\ 60 <= latest_hr[1] /\ latest_hr[1] <= 100
    THEN "normal" ELSE "warning"

\* app.py show_dashboard, line 765
activity_status(recent_activity) ==
    IF Truthy(Some(recent_activity)) /\ recent_activity >= 5000
    THEN "normal" ELSE "warning"

\* The resting heart rates and step averages a health summary may hold
HeartRates == 0..MaxHeartRate
StepAverages == {0, 3000, 5000, 6000}

Summaries ==
    [latest_heart_rate : {None} \cup {Some(v) : v \in HeartRates},
     recent_activity   : StepAverages]

\* app.py show_dashboard, lines 755-768: the status of the metrics of the
\* summary
ShowDashboard ==
    /\ status' = [hr_status |-> hr_status(summary.latest_heart_rate),
                  activity_status |-> activity_status(summary.recent_activity)]
    /\ UNCHANGED <<now, assignments, summary, alertVars, evalVars, authVars, syncVars>>

-----------------------------------------------------------------------------
(* The aggregation queries: database/clinical_service.py                   *)
(* get_patients_by_clinician, get_clinician_dashboard_stats,               *)
(* generate_patient_report; database/database_service.py                   *)
(* get_patient_wearable_data, get_patient_health_summary                   *)

SecondsPerDay == 86400

\* The patient rows (demo_data.py lines 30-58): every patient is ACTIVE
PatientRows ==
    [p \in Patients |->
        [status |-> "active", risk_level |-> IF p = "p1" THEN Some("high") ELSE Some("medium")]]

\* session.get(Patient, patient_id)
GetPatient(patient_id) == IF patient_id \in Patients THEN Some(PatientRows[patient_id]) ELSE None

\* The patient ids the queries are made with: a patient, or an id of no patient
QueryPatients == Patients \cup {"unknown"}

\* The symptomreport and clinicalnote tables the report reads: no operation
\* of the model writes them
SymptomReports == <<>>
ClinicalNotes == <<>>

\* The wearable_data dicts of a CSV upload and of the upload form (app.py
\* lines 1316-1331 and 1262-1275): a row of today whose metrics are absent or
\* zero, and a row of values from eight days ago
UploadInputs ==
    { [timestamp |-> <<0, 0>>, heart_rate |-> None, hrv_rmssd |-> Some(0),
       steps |-> Some(0), calories |-> None, source |-> "csv_upload"],
      [timestamp |-> <<-8, 0>>, heart_rate |-> Some(72), hrv_rmssd |-> Some(42),
       steps |-> Some(5000), calories |-> Some(2000), source |-> "manual"] }

\* app.py lines 1275 and 1331: db_service.add_wearable_data of an entered row
UploadWearableData(patient_id, wearable_data) ==
    /\ Len(wearable) < MaxSamples
    /\ wearable' = AddRows(wearable,
                           <<[patient_id |-> patient_id] @@ wearable_data>>, 1)
    /\ UNCHANGED <<now, viewVars, alertVars, evalVars, authVars,
                   syncPc, sync, syncRuns, faults, biomarkers, stErrors, calls>>

\* A timestamp of a wearable row, in seconds from the midnight the clock
\* starts at
Seconds(timestamp) == timestamp[1] * SecondsPerDay + timestamp[2] * 60

\* datetime.utcnow() - timedelta(days=days), in seconds
StartDate(t, days) == Time(t) - days * SecondsPerDay

\* select(WearableData).where(patient_id == ..., timestamp >= start_date)
\* over the first n rows, in table order
RECURSIVE SelectWearable(_, _, _, _)
SelectWearable(table, patient_id, start_date, n) ==
    IF n = 0 THEN <<>>
    ELSE SelectWearable(table, patient_id, start_date, n - 1)
         \o (IF /\ table[n].patient_id = patient_id
                /\ Seconds(table[n].timestamp) >= start_date
             THEN <<table[n]>> ELSE <<>>)

WearableSince(table, patient_id, start_date) ==
    SelectWearable(table, patient_id, start_date, Len(table))

\* DatabaseService.get_patient_wearable_data
get_patient_wearable_data(table, patient_id, days, t) ==
    WearableSince(table, patient_id, StartDate(t, days))

\* sum() of a list of numbers
RECURSIVE Sum(_)
Sum(values) == IF values = <<>> THEN 0 ELSE Head(values) + Sum(Tail(values))

\* a / b: raised is the ZeroDivisionError of a zero divisor
Quotient(a, b) == [raised |-> b = 0, num |-> a, den |-> b]

\* [d.<field> for d in rows if d.<field>]
RECURSIVE TruthyValues(_, _)
TruthyValues(rows, field) ==
    IF rows = <<>> THEN <<>>
    ELSE (IF Truthy(Get(Head(rows), field, None))
          THEN <<Head(rows)[field][1]>> ELSE <<>>)
         \o TruthyValues(Tail(rows), field)

\* [d.steps or 0 for d in rows]
RECURSIVE StepsOrZero(_)
StepsOrZero(rows) ==
    IF rows = <<>> THEN <<>>
    ELSE <<IF Truthy(Head(rows).steps) THEN Head(rows).steps[1] ELSE 0>>
         \o StepsOrZero(Tail(rows))

\* ClinicalService.get_patients_by_clinician over the first n patients: the
\* join yields a patient once for each of its assignments to the clinician
RECURSIVE get_patients_by_clinician(_, _, _, _)
get_patients_by_clinician(assignTable, clinician_id, include_inactive, n) ==
    IF n = 0 THEN <<>>
    ELSE (IF include_inactive \/ PatientRows[PatientTable[n]].status = "active"
          THEN Repeat(PatientTable[n], JoinedRows(assignTable, clinician_id, PatientTable[n]))
          ELSE <<>>)
         \o get_patients_by_clinician(assignTable, clinician_id, include_inactive, n - 1)

\* The counts of lines 134-139: for each key that occurs, how often
CountsOf(keys) ==
    [k \in {keys[i] : i \in DOMAIN keys} |-> Cardinality({i \in DOMAIN keys : keys[i] = k})]

\* The risk levels of the patients that have one
RECURSIVE RiskLevels(_)
RiskLevels(patients) ==
    IF patients = <<>> THEN <<>>
    ELSE (IF PatientRows[Head(patients)].risk_level # None
          THEN <<PatientRows[Head(patients)].risk_level[1]>> ELSE <<>>)
         \o RiskLevels(Tail(patients))

\* Lines 145-154: the rows of the last week, summed over the patients
RECURSIVE RecentActivity(_, _, _)
RecentActivity(wearableTable, patients, t) ==
    IF patients = <<>> THEN 0
    ELSE Len(WearableSince(wearableTable, Head(patients), StartDate(t, 7)))
         + RecentActivity(wearableTable, Tail(patients), t)

\* ClinicalService.get_clinician_dashboard_stats
get_clinician_dashboard_stats(assignTable, alertTable, wearableTable, clinician_id, t) ==
    LET patients == get_patients_by_clinician(assignTable, clinician_id, FALSE,
                                              Len(PatientTable))
        status_counts == CountsOf([i \in DOMAIN patients |-> PatientRows[patients[i]].status])
        risk_counts == CountsOf(RiskLevels(patients))
        active_alerts == get_active_alerts(alertTable, assignTable, Some(clinician_id),
                                           Len(alertTable))
    IN  [total_patients     |-> Len(patients),
         status_counts      |-> status_counts,
         risk_counts        |-> risk_counts,
         active_alerts      |-> Len(active_alerts),
         recent_data_points |-> RecentActivity(wearableTable, patients, t),
         high_risk_patients |-> Get(risk_counts, "high", 0)]

\* The clinicians the dashboard is computed for: the clinician of the
\* assignments, and one without patients
StatsClinicians == Clinicians

GetClinicianDashboardStats(clinician_id) ==
    /\ last' = [op |-> "get_clinician_dashboard_stats", id |-> 0, ret |-> "stats",
                clinician_id |-> clinician_id,
                stats |-> get_clinician_dashboard_stats(assignments, alerts, wearable,
                                                        clinician_id, now)]
    /\ UNCHANGED <<now, viewVars, alerts, evalVars, authVars, syncVars>>

\* select(PatientAlert).where(patient_id == ..., created_at >= start_date):
\* the ids of the rows
AlertsSince(alertTable, patient_id, start_date) ==
    { i \in DOMAIN alertTable :
        /\ alertTable[i].patient_id = patient_id
        /\ Time(alertTable[i].created_at) >= start_date }

\* generate_patient_report that computes the averages of all rows it has read
generate_patient_report_unguarded(wearableTable, alertTable, patient_id, days, t) ==
    IF GetPatient(patient_id) = None THEN EmptyDict
    ELSE LET wearable_data == WearableSince(wearableTable, patient_id, StartDate(t, days))
             hr_values == TruthyValues(wearable_data, "heart_rate")
             hrv_values == TruthyValues(wearable_data, "hrv_rmssd")
         IN  [patient |-> patient_id,
              summary |->
                [monitoring_period_days |-> days,
                 data_points      |-> Len(wearable_data),
                 symptom_reports  |-> Len(SymptomReports),
                 average_heart_rate |->
                    IF wearable_data # <<>>
                    THEN Some(Quotient(Sum(hr_values), Len(hr_values))) ELSE None,
                 average_hrv |->
                    IF wearable_data # <<>>
                    THEN Some(Quotient(Sum(hrv_values), Len(hrv_values))) ELSE None,
                 clinical_notes   |-> Len(ClinicalNotes)],
              recent_notes |-> ClinicalNotes,
              alerts |-> AlertsSince(alertTable, patient_id, StartDate(t, days))]

\* ClinicalService.generate_patient_report: {} for an unknown patient; the
\* averages are None unless rows with a value have been read
generate_patient_report(wearableTable, alertTable, patient_id, days, t) ==
    IF GetPatient(patient_id) = None THEN EmptyDict
    ELSE LET wearable_data == WearableSince(wearableTable, patient_id, StartDate(t, days))
             hr_values == TruthyValues(wearable_data, "heart_rate")
             hrv_values == TruthyValues(wearable_data, "hrv_rmssd")
         IN  [patient |-> patient_id,
              summary |->
                [monitoring_period_days |-> days,
                 data_points      |-> Len(wearable_data),
                 symptom_reports  |-> Len(SymptomReports),
                 average_heart_rate |->
                    IF wearable_data # <<>> /\ hr_values # <<>>
                    THEN Some(Quotient(Sum(hr_values), Len(hr_values))) ELSE None,
                 average_hrv |->
                    IF wearable_data # <<>> /\ hrv_values # <<>>
                    THEN Some(Quotient(Sum(hrv_values), Len(hrv_values))) ELSE None,
                 clinical_notes   |-> Len(ClinicalNotes)],
              recent_notes |-> ClinicalNotes,
              alerts |-> AlertsSince(alertTable, patient_id, StartDate(t, days))]

\* A quotient of the result has a zero divisor: the call raised
Raised(quotients) == \E q \in quotients : q # None /\ q[1].raised

\* The report periods: the default of 30 days (app.py line 266)
ReportDays == {30}

\* generate_patient_report that marks the alerts of the report as resolved
GeneratePatientReport_resolving(patient_id, days) ==
    /\ last' = [op |-> "generate_patient_report", id |-> 0, ret |-> "report",
                patient_id |-> patient_id,
                report |-> generate_patient_report(wearable, alerts, patient_id, days, now)]
    /\ alerts' = [i \in DOMAIN alerts |->
                    IF alerts[i].patient_id = patient_id
                    THEN [alerts[i] EXCEPT !.is_resolved = TRUE] ELSE alerts[i]]
    /\ UNCHANGED <<now, viewVars, evalVars, authVars, syncVars>>

GeneratePatientReport(patient_id, days) ==
    /\ LET report == generate_patient_report(wearable, alerts, patient_id, days, now)
       IN  last' = [op |-> "generate_patient_report", id |-> 0,
                    ret |-> IF DOMAIN report # {}
                               /\ Raised({report.summary.average_heart_rate,
                                          report.summary.average_hrv})
                            THEN "ZeroDivisionError" ELSE "report",
                    patient_id |-> patient_id,
                    report |-> report]
    /\ UNCHANGED <<now, viewVars, alerts, evalVars, authVars, syncVars>>

\* The values of the resting heart rate biomarkers of a patient with the
\* latest timestamp: .order_by(desc(timestamp)).limit(1).first() returns one
\* of them, or None when there is none
LatestRestingHeartRates(biomarkerTable, patient_id) ==
    LET mine == { i \in DOMAIN biomarkerTable :
                    /\ biomarkerTable[i].patient_id = patient_id
                    /\ biomarkerTable[i].biomarker_type = "resting_heart_rate" }
    IN  IF mine = {} THEN {None}
        ELSE { Some(biomarkerTable[i].value) :
                 i \in { j \in mine : \A k \in mine :
                           biomarkerTable[k].timestamp <= biomarkerTable[j].timestamp } }

\* DatabaseService.get_patient_health_summary, with the latest biomarker the
\* query returned
get_patient_health_summary(wearableTable, latest_hr, patient_id, t) ==
    LET wearable_data == get_patient_wearable_data(wearableTable, patient_id, 7, t)
        max_len == IF Len(wearable_data) > 1 THEN Len(wearable_data) ELSE 1
    IN  [latest_heart_rate |-> latest_hr,
         latest_symptoms   |-> None,
         recent_activity   |-> Quotient(Sum(StepsOrZero(wearable_data)), max_len),
         data_points_count |-> Len(wearable_data)]

GetPatientHealthSummary(patient_id) ==
    /\ \E latest_hr \in LatestRestingHeartRates(biomarkers, patient_id) :
         LET s == get_patient_health_summary(wearable, latest_hr, patient_id, now)
         IN  last' = [op |-> "get_patient_health_summary", id |-> 0,
                      ret |-> IF s.recent_activity.raised
                              THEN "ZeroDivisionError" ELSE "summary",
                      patient_id |-> patient_id,
                      summary |-> s]
    /\ UNCHANGED <<now, viewVars, alerts, evalVars, authVars, syncVars>>

-----------------------------------------------------------------------------
(* Specifications *)

InitStores ==
    /\ now = 0
    /\ alerts = <<>>
    /\ last = [op |-> "none", id |-> 0, ret |-> "None"]
    /\ evalPc = [w \in Callers |-> "idle"]
    /\ evalLocal = [w \in Callers |-> None]
    /\ session = EmptyDict
    /\ issued = 0
    /\ gvtPc = [c \in TokenCallers |-> "idle"]
    /\ gvtLocal = [c \in TokenCallers |-> None]
    /\ gvtRet = [c \in TokenCallers |-> None]
    /\ syncPc = "idle"
    /\ sync = [patient_id |-> "p1", days |-> 0, day_offset |-> 0,
               saved_count |-> 0, outcome |-> "none"]
    /\ syncRuns = 0
    /\ faults = 0
    /\ wearable = <<>>
    /\ biomarkers = <<>>
    /\ stErrors = <<>>
    /\ calls = <<>>
    /\ assignments = <<>>

\* No dashboard has been shown
NoStatus == [hr_status |-> "none", activity_status |-> "none"]

Init ==
    /\ InitStores
    /\ summary = [latest_heart_rate |-> None, recent_activity |-> 0]
    /\ status = NoStatus

\* The alert table under the service's operations, one call at a time
NextAlert ==
    \/ Tick
    \/ \E d \in AlertInputs : CreateAlert(d)
    \/ \E id \in 1..(MaxAlerts + 1), by \in Clinicians, n \in ResolutionNotes :
          ResolveAlert(id, by, n)
    \/ CreateDemoClinicalData

Spec == Init /\ [][NextAlert]_vars

\* The alert table and the assignments under the service's operations, with
\* the fetches of the active alerts
NextCare ==
    \/ \E p \in {PatientTable[i] : i \in DOMAIN PatientTable},
          c \in AssignedClinicians : AssignPatient(p, c, TRUE)
    \/ \E d \in AlertInputs : CreateAlert(d)
    \/ \E id \in 1..(MaxAlerts + 1), by \in AssignedClinicians, n \in ResolutionNotes :
          ResolveAlert(id, by, n)
    \/ CreateDemoClinicalData
    \/ \E c \in FetchScopes : GetActiveAlerts(c)
    \/ \E c \in StatsClinicians : GetClinicianDashboardStats(c)

SpecCare == Init /\ [][NextCare]_vars

\* The assignments of the patients to the clinicians
NextAssign ==
    \/ Tick
    \/ \E p \in Patients, c \in Clinicians, b \in BOOLEAN : AssignPatient(p, c, b)

SpecAssign == Init /\ [][NextAssign]_vars

\* The dashboard shown for a health summary
InitDash ==
    /\ InitStores
    /\ summary \in Summaries
    /\ status = NoStatus

NextDash == ShowDashboard

SpecDash == InitDash /\ [][NextDash]_vars

\* Concurrent create_alert calls on an empty table
NextEval ==
    \/ Tick
    \/ \E w \in Callers, d \in AlertInputs : EvalAdd(w, d)
    \/ \E w \in Callers : EvalCommit(w)

SpecEval == Init /\ [][NextEval]_vars

\* What the provider may answer a token request with: no token, or a new one
TokenAnswers(n) == {None} \cup {Some(token) : token \in TokenBundles(n)}

\* The Fitbit session under its operations and concurrent get_valid_token calls
OAuthStates == {"state1"}

NextAuth ==
    \/ Tick
    \/ ~is_authenticated(session) /\ \E st \in OAuthStates : GetAuthorizationUrl(st)
    \/ \E q \in CallbackParams, resp \in TokenAnswers(issued + 1) : OAuthCallback(q, resp)
    \/ RevokeAccess
    \/ \E c \in TokenCallers : GvtCall(c)
    \/ \E c \in TokenCallers, resp \in TokenAnswers(issued + 1) : RefreshAnswered(c, resp)

SpecAuth == Init /\ [][NextAuth]_vars

\* Syncs of one patient, one after the other, over the Fitbit session
\* A sync is short against a token's lifetime: here the clock stands still and
\* the token, when there is one, is fresh (its refresh is under SpecAuth).
SyncTokenAnswers(n) == {None, Some([access_token |-> n, refresh_token |-> n])}

NextSync ==
    \/ syncPc = "idle"
          /\ \E q \in CallbackParams, resp \in SyncTokenAnswers(issued + 1) :
                OAuthCallback(q, resp)
    \/ \E p \in SyncPatients, days \in 1..MaxDays : SyncStart(p, days)
    \/ \E resp \in SyncTokenAnswers(issued + 1), a \in Answers : SyncHeartRate(resp, a)
    \/ \E resp \in SyncTokenAnswers(issued + 1), a \in Answers : SyncRestingHeartRate(resp, a)
    \/ \E resp \in SyncTokenAnswers(issued + 1), a \in Answers : SyncActivity(resp, a)

SpecSync == Init /\ [][NextSync]_vars

\* A sync that has started keeps running: the loop of sync_real_fitbit_data
\* goes from one fetch to the next without waiting for anything but the answer
SyncStep ==
    \E resp \in SyncTokenAnswers(issued + 1), a \in Answers :
        \/ SyncHeartRate(resp, a)
        \/ SyncRestingHeartRate(resp, a)
        \/ SyncActivity(resp, a)

\* The aggregation queries over the tables, with the operations that fill
\* the tables: uploads of wearable rows, assignments and alerts, in a session
\* that may hold a token
NextReport ==
    \/ \E resp \in SyncTokenAnswers(issued + 1) : OAuthCallback([code |-> "code1"], resp)
    \/ \E d \in UploadInputs : UploadWearableData("p1", d)
    \/ \E p \in Patients, c \in AssignedClinicians : AssignPatient(p, c, TRUE)
    \/ \E d \in AlertInputs : CreateAlert(d)
    \/ \E c \in FetchScopes : GetActiveAlerts(c)
    \/ \E c \in StatsClinicians : GetClinicianDashboardStats(c)
    \/ \E p \in QueryPatients, days \in ReportDays : GeneratePatientReport(p, days)
    \/ \E p \in QueryPatients : GetPatientHealthSummary(p)

SpecReport == Init /\ [][NextReport]_vars

-----------------------------------------------------------------------------
(* Claims about the alert table *)

SameKey(a, b) == a.patient_id = b.patient_id /\ a.alert_type = b.alert_type

\* C1: for every (patient_id, alert_type) there is at most one Alert with
\* is_resolved = false, after any sequence of create and resolve operations.
C1_AtMostOneOpenAlert ==
    \A i \in DOMAIN alerts, j \in DOMAIN alerts :
        (SameKey(alerts[i], alerts[j]) /\ ~alerts[i].is_resolved /\ ~alerts[j].is_resolved)
            => i = j

\* The evaluate(p1, HIGH_HR, critical, 130, "60-100") call of the scenario
ScenarioRow(r) ==
    /\ r.patient_id = "p1"
    /\ r.alert_type = "high_heart_rate"
    /\ r.severity = "critical"
    /\ r.trigger_value = Some(130)
    /\ r.normal_range = Some("60-100")

\* C2: two concurrent evaluate(p1, HIGH_HR, critical, 130, "60-100") calls
\* yield, once both have returned, exactly one Alert row, of severity critical.
C2_ConcurrentEvaluateOneRow ==
    (\A w \in {1, 2} : evalPc[w] = "done" /\ ScenarioRow(evalLocal[w][1]))
        => (Len(alerts) = 1 /\ alerts[1].severity = "critical")

\* C3: resolve on an alert that is already resolved fails with
\* AlreadyResolvedError and leaves the row as the first resolution set it.
C3_ResolveResolvedFails ==
    [][\A id \in DOMAIN alerts, by \in Clinicians, n \in ResolutionNotes :
          (alerts[id].is_resolved /\ ResolveAlert(id, by, n))
              => (alerts'[id] = alerts[id] /\ last'.ret = "AlreadyResolvedError")]_vars

\* C11: resolve with an alert id that does not exist fails with NotFoundError
\* (an error outcome, not an empty result) and changes no alert.
C11_ResolveMissingFails ==
    [][\A id \in 1..(MaxAlerts + 1), by \in Clinicians, n \in ResolutionNotes :
          (id \notin DOMAIN alerts /\ ResolveAlert(id, by, n))
              => (alerts' = alerts /\ last'.ret = "NotFoundError")]_vars

\* C10: once an Alert is resolved it stays resolved with its row in place, and
\* creating an alert appends a new unresolved row and changes no existing row.
C10_ResolvedStaysResolved ==
    [][/\ \A id \in DOMAIN alerts :
             alerts[id].is_resolved => (id \in DOMAIN alerts' /\ alerts'[id].is_resolved)
       /\ \A d \in AlertInputs :
             CreateAlert(d) =>
                /\ Len(alerts') = Len(alerts) + 1
                /\ \A id \in DOMAIN alerts : alerts'[id] = alerts[id]
                /\ ~alerts'[Len(alerts')].is_resolved
                /\ alerts'[Len(alerts')].patient_id = d.patient_id
                /\ alerts'[Len(alerts')].alert_type = d.alert_type]_vars

\* C10's case: a resolved alert, and a later open alert of the same key
C10_Witness ==
    \E i \in DOMAIN alerts, j \in DOMAIN alerts :
        /\ i < j
        /\ SameKey(alerts[i], alerts[j])
        /\ alerts[i].is_resolved
        /\ ~alerts[j].is_resolved
        /\ alerts[i].resolved_at # None
        /\ alerts[j].created_at >= alerts[i].resolved_at[1]

\* C12: after resolve succeeded on an alert, every later fetch of the active
\* alerts, of a clinician or of all, omits that alert.
C12_ResolvedAlertNotActive ==
    [][\A c \in FetchScopes :
          GetActiveAlerts(c) =>
             \A id \in DOMAIN alerts :
                alerts[id].resolved_by # None =>
                   \A k \in DOMAIN last'.rows : last'.rows[k] # id]_vars

\* C12's case: a clinician's fetch that returns an open alert of an assigned
\* patient while another alert of an assigned patient has been resolved
C12_Witness ==
    /\ last.op = "get_active_alerts"
    /\ last.clinician_id # None
    /\ last.rows # <<>>
    /\ \E id \in DOMAIN alerts :
          /\ alerts[id].resolved_by # None
          /\ JoinedRows(assignments, last.clinician_id[1], alerts[id].patient_id) > 0

\* C13: an Alert becomes resolved only through resolve_alert: every resolved
\* Alert has resolved_at and resolved_by set, and a step that turns an open
\* alert into a resolved one is a resolve_alert call on that alert (creating
\* an alert resolves none).
C13_ResolvedOnlyByResolve ==
    /\ [](\A id \in DOMAIN alerts :
            alerts[id].is_resolved =>
               (alerts[id].resolved_at # None /\ alerts[id].resolved_by # None))
    /\ [][\A id \in DOMAIN alerts :
             (~alerts[id].is_resolved /\ id \in DOMAIN alerts' /\ alerts'[id].is_resolved)
                => \E by \in Clinicians, n \in ResolutionNotes : ResolveAlert(id, by, n)]_vars

\* C13's case: an alert created after an open one has been resolved by a
\* clinician, and the earlier one is still open
C13_Witness ==
    \E i \in DOMAIN alerts, j \in DOMAIN alerts :
        /\ i < j
        /\ ~alerts[i].is_resolved
        /\ alerts[j].is_resolved
        /\ alerts[j].resolved_by \in {Some(c) : c \in Clinicians}
        /\ alerts[j].resolved_at # None

-----------------------------------------------------------------------------
(* Claims about the Fitbit session *)

\* C4: get_valid_token never returns a stale token: a call that returns a
\* token returns one outside the 5-minute expiry buffer, and a call whose
\* refresh fails does not return the token it found stored.
C4_NeverReturnsStaleToken ==
    [][\A c \in TokenCallers :
          /\ (GvtCall(c) /\ gvtPc'[c] = "idle" /\ gvtRet'[c] # None)
                => ~NeedsRefresh(session, now)
          /\ GvtResponse(c, None)
                => gvtRet'[c] # Some(gvtLocal[c][1].token)]_vars

\* C5: refresh is mutually exclusive per session: no two callers of
\* get_valid_token have a refresh request with the same refresh token in
\* flight at the same time.
C5_RefreshMutuallyExclusive ==
    \A c \in TokenCallers, d \in TokenCallers :
        (gvtPc[c] = "posting" /\ gvtPc[d] = "posting"
           /\ gvtLocal[c][1].refresh_token = gvtLocal[d][1].refresh_token)
            => c = d

\* C14: a callback stores a token only when its state is the one that
\* get_authorization_url issued and the provider accepts its code; a callback
\* with another state, or with a rejected code, stores no token and leaves the
\* session unauthenticated.
C14_CallbackStateChecked ==
    [][\A q \in CallbackParams, resp \in TokenAnswers(issued + 1) :
          OAuthCallback(q, resp) =>
             IF /\ SessionState(session) # None
                /\ ResponseState(q) = SessionState(session)
                /\ resp # None
             THEN TRUE
             ELSE "fitbit_token" \notin DOMAIN session' /\ ~is_authenticated(session')]_vars

\* The keys of the stored credential
CredentialKeys == {"fitbit_token", "fitbit_connected", "token_expires_at"}

\* C15: revoke_access clears the token, the connected flag and the expiry, so
\* that the session is unauthenticated and get_valid_token yields no token;
\* revoking again, or revoking a session without a credential, changes nothing.
C15_RevokeClearsAndIdempotent ==
    [][RevokeAccess =>
          /\ DOMAIN session' \cap CredentialKeys = {}
          /\ ~is_authenticated(session')
          /\ \A resp \in TokenAnswers(issued + 1) :
                get_valid_token(session', now, resp).ret = None
          /\ revoke_access(session') = session'
          /\ (DOMAIN session \cap CredentialKeys = {}) => session' = session
          /\ \A k \in DOMAIN session' : session'[k] = session[k]]_vars

\* C15's case: a session that has held a token and holds no credential now
C15_Witness ==
    /\ issued > 0
    /\ DOMAIN session \cap CredentialKeys = {}
    /\ \A c \in TokenCallers : gvtPc[c] = "idle"

\* The state of the external session, read off the session and the calls in
\* progress: a refresh is in flight, a credential is stored, an authorization
\* has been begun, or none of these
SessionPhase(sess, pc) ==
    IF \E c \in TokenCallers : pc[c] = "posting" THEN "REFRESHING"
    ELSE IF is_authenticated(sess) THEN "AUTHENTICATED"
    ELSE IF "oauth_state" \in DOMAIN sess THEN "AUTHORIZING"
    ELSE "UNAUTHENTICATED"

\* C16: the session becomes AUTHENTICATED only from AUTHORIZING by a callback
\* that stores a token, or from REFRESHING by a refresh that yields a token;
\* it becomes REFRESHING only from AUTHENTICATED; revoke_access leads from
\* AUTHENTICATED to UNAUTHENTICATED.
C16_SessionTransitions ==
    [][LET from == SessionPhase(session, gvtPc)
           to   == SessionPhase(session', gvtPc')
       IN  /\ (from # "AUTHENTICATED" /\ to = "AUTHENTICATED") =>
                 \/ /\ from = "AUTHORIZING"
                    /\ \E q \in CallbackParams, resp \in TokenAnswers(issued + 1) :
                          resp # None /\ OAuthCallback(q, resp)
                 \/ /\ from = "REFRESHING"
                    /\ \E c \in TokenCallers, resp \in TokenAnswers(issued + 1) :
                          resp # None /\ RefreshAnswered(c, resp)
           /\ (from # "REFRESHING" /\ to = "REFRESHING") => from = "AUTHENTICATED"
           /\ (from = "AUTHENTICATED" /\ RevokeAccess) => to = "UNAUTHENTICATED"]_vars

\* C29: a session with the connected flag holds a token and its expiry; the
\* flag is set only by a step that stores the token and the expiry with it,
\* the token is removed only together with the flag and the expiry, and a
\* refresh removes none of the three.
C29_ConnectedImpliesToken ==
    /\ []("fitbit_connected" \in DOMAIN session =>
             {"fitbit_token", "token_expires_at"} \subseteq DOMAIN session)
    /\ [][/\ ("fitbit_connected" \in DOMAIN session' \ DOMAIN session) =>
               /\ {"fitbit_token", "token_expires_at"} \subseteq DOMAIN session'
               /\ session'.fitbit_token.access_token = issued'
               /\ issued' = issued + 1
          /\ ("fitbit_token" \in DOMAIN session \ DOMAIN session') =>
               DOMAIN session' \cap CredentialKeys = {}
          /\ (\E c \in TokenCallers : gvtPc[c] = "posting" /\ gvtPc'[c] = "idle") =>
               DOMAIN session \cap CredentialKeys \subseteq DOMAIN session']_vars

\* C29's case: a connected session whose token a refresh has replaced
C29_Witness ==
    /\ "fitbit_connected" \in DOMAIN session
    /\ "fitbit_token" \in DOMAIN session
    /\ session.fitbit_token.access_token > 1
    /\ \E c \in TokenCallers : gvtRet[c] = Some(session.fitbit_token)

\* A refresh_token call returns: the answer to its POST has arrived
RefreshReturns(c) == gvtPc[c] = "posting" /\ gvtPc'[c] = "idle"

\* C30: a refresh that fails leaves the session as it was and yields no token
\* (get_valid_token falls back to the token it read); this covers the refresh
\* that makes no request for want of a refresh_token.  A refresh that succeeds
\* stores the new token and the expiry computed from it, and leaves every
\* other key of the session, the connected flag included, as it was.
C30_RefreshFrame ==
    [][/\ \A c \in TokenCallers :
             (RefreshReturns(c) /\ issued' = issued) =>
                 /\ session' = session
                 /\ gvtRet'[c] = Some(gvtLocal[c][1].token)
       /\ \A c \in TokenCallers :
             (RefreshReturns(c) /\ issued' # issued) =>
                 /\ {"fitbit_token", "token_expires_at"} \subseteq DOMAIN session'
                 /\ session'.fitbit_token.access_token = issued'
                 /\ gvtRet'[c] = Some(session'.fitbit_token)
                 /\ session'.token_expires_at =
                       Time(now) + Get(session'.fitbit_token, "expires_in", DefaultExpiresIn)
                 /\ DOMAIN session' \ {"fitbit_token", "token_expires_at"}
                       = DOMAIN session \ {"fitbit_token", "token_expires_at"}
                 /\ \A k \in DOMAIN session \ {"fitbit_token", "token_expires_at"} :
                       session'[k] = session[k]
       /\ \A c \in TokenCallers :
             (/\ gvtPc[c] = "idle" /\ gvtPc'[c] = "idle" /\ gvtRet'[c] # gvtRet[c]
              /\ "fitbit_token" \in DOMAIN session
              /\ RefreshRequest(session) = None) =>
                 /\ session' = session
                 /\ gvtRet'[c] = Some(session.fitbit_token)]_vars

\* C30's case: a refresh has stored its token and expiry in a session that
\* keeps its connected flag
C30_Witness ==
    /\ {"fitbit_connected", "fitbit_token", "token_expires_at"} \subseteq DOMAIN session
    /\ session.fitbit_token.access_token = 2
    /\ session.token_expires_at = Time(now) + DefaultExpiresIn
    /\ \E c \in TokenCallers : gvtRet[c] = Some(session.fitbit_token)

-----------------------------------------------------------------------------
(* Claims about the sync *)

\* The natural key of a wearable row
MetricKind(r) == IF r.heart_rate # None THEN "heart_rate" ELSE "activity"
WearableKey(r) == <<r.patient_id, r.timestamp, r.source, MetricKind(r)>>

\* The calls of the current sync that were not answered 200
FailedCalls == {i \in DOMAIN calls : calls[i].answer # "200"}

\* The days of the provider that carry a resting heart rate
RestingDays == {d \in 0..(MaxDays - 1) : RestingHeartRate(SyncDate(d)) # None}

\* C6: when no request and no store has failed, after any number of syncs
\* over overlapping days no two wearable rows share a (patient_id, timestamp,
\* source, metric-kind) key, and there is no more than one resting heart rate
\* biomarker for each day that has one.
C6_ResyncNoDuplicateRows ==
    faults = 0 =>
        /\ \A i \in DOMAIN wearable, j \in DOMAIN wearable :
              WearableKey(wearable[i]) = WearableKey(wearable[j]) => i = j
        /\ Len(biomarkers) <= Cardinality(RestingDays)

\* C7: a failure while fetching or storing one day's data is recorded in the
\* errors and the remaining days are still processed: a sync that has ended
\* has gone through every day of its window.
C7_DayFailureDoesNotAbort ==
    syncPc = "done" =>
        /\ sync.day_offset = sync.days
        /\ \A i \in FailedCalls :
              \E e \in DOMAIN stErrors : stErrors[e] = AnswerError(calls[i].answer)

\* C8: a sync whose only failed requests were answered 429 has retried each
\* of them, stored samples for every day of its window and recorded no error.
C8_RateLimitedRequestRetried ==
    (/\ syncPc = "done"
     /\ sync.outcome = "success"
     /\ FailedCalls # {}
     /\ \A i \in FailedCalls : calls[i].answer = "429")
        => /\ \A i \in FailedCalls : \E j \in DOMAIN calls :
                 /\ j > i
                 /\ calls[j].endpoint = calls[i].endpoint
                 /\ calls[j].date = calls[i].date
                 /\ calls[j].answer = "200"
           /\ \A d \in 0..(sync.days - 1) : \E r \in DOMAIN wearable :
                 wearable[r].timestamp[1] = SyncDate(d) /\ wearable[r].heart_rate # None
           /\ stErrors = <<>>

\* C9: once a provider call of a sync is answered 401, the sync issues no
\* further provider call.
C9_AuthFailureStopsCalls ==
    \A i \in DOMAIN calls : calls[i].answer = "401" => i = Len(calls)

\* The days of the window of the current sync: today - days + 1 .. today
SyncWindow == {SyncDate(k) : k \in 0..(sync.days - 1)}

\* C17: a sync requests exactly the days of its window, each request once,
\* oldest day first, so that at any moment the days requested so far are the
\* oldest days of the window.
C17_DaysOldestFirst ==
    /\ \A i \in DOMAIN calls : calls[i].date \in SyncWindow
    /\ \A i \in DOMAIN calls, j \in DOMAIN calls :
          /\ i < j => calls[i].date <= calls[j].date
          /\ (calls[i].endpoint = calls[j].endpoint /\ calls[i].date = calls[j].date) => i = j
    /\ \A i \in DOMAIN calls : \A d \in SyncWindow :
          d < calls[i].date => \E j \in DOMAIN calls : calls[j].date = d
    /\ (syncPc = "done" /\ sync.outcome = "success" /\ calls # <<>>) =>
          \A d \in SyncWindow : \E j \in DOMAIN calls : calls[j].date = d

\* app.py lines 1224-1227: the days a sync's messages name.  The success
\* message carries a count and the error message the exception's text.
ReportedDays == {}

\* The wearable rows the current sync has stored
SyncedRows == {i \in DOMAIN wearable : i > Len(wearable) - sync.saved_count}

\* C23: a sync that has stopped on an error reports the days it completed, and
\* the rows it has stored are those of the reported days: every sample of a
\* reported day and no sample of another day.
C23_AbortReportsCompletedDays ==
    (syncPc = "done" /\ sync.outcome = "error") =>
        /\ \A k \in 0..(sync.day_offset - 1) : SyncDate(k) \in ReportedDays
        /\ \A i \in SyncedRows : wearable[i].timestamp[1] \in ReportedDays

\* C24: no two wearable rows share the same (patient_id, timestamp, source);
\* here for the rows of a first sync in which nothing has failed: it stores no
\* heart rate row and activity row with the same timestamp.
C24_WearableRowsUnique ==
    (syncRuns = 1 /\ faults = 0) =>
        \A i \in DOMAIN wearable, j \in DOMAIN wearable :
            (/\ wearable[i].patient_id = wearable[j].patient_id
             /\ wearable[i].timestamp = wearable[j].timestamp
             /\ wearable[i].source = wearable[j].source) => i = j

\* The fetches of a day
Endpoints == {"heart_intraday", "heart", "activity"}

\* How far a sync has come: the fetches it has behind it
SyncProgress(pc, sy) ==
    3 * sy.day_offset + (CASE pc = "heart_intraday" -> 0
                           [] pc = "heart" -> 1
                           [] pc = "activity" -> 2
                           [] OTHER -> 0)

-----------------------------------------------------------------------------
(* Claims about the status of a metric *)

\* value lies in one of the inclusive intervals
InIntervals(intervals, value) ==
    \E k \in DOMAIN intervals : intervals[k][1] <= value /\ value <= intervals[k][2]

\* The intervals a table gives a tier, none when it has no such tier
TierIntervals(table, tier) == IF tier \in DOMAIN table THEN table[tier] ELSE <<>>

\* The tier the claims give a value: the first of critical, warning, normal
\* with an interval of the metric's table that contains the value, and
\* unclassified when there is none or the metric has no table
ClaimedTier(metric, value) ==
    IF metric \notin DOMAIN BIOMARKER_THRESHOLDS THEN "unclassified"
    ELSE LET table == BIOMARKER_THRESHOLDS[metric] IN
         IF InIntervals(TierIntervals(table, "critical"), value) THEN "critical"
         ELSE IF InIntervals(TierIntervals(table, "warning"), value) THEN "warning"
         ELSE IF InIntervals(TierIntervals(table, "normal"), value) THEN "normal"
         ELSE "unclassified"

\* C18: the status of a resting heart rate is the first of critical, warning,
\* normal with an inclusive interval containing it: 85 is normal, 55 and 110
\* are warning, 45 is critical, 50 and 120 are critical, 60 and 100 are warning.
C18_ClassifyBySeverityOrder ==
    /\ ClaimedTier("resting_heart_rate", 85) = "normal"
    /\ ClaimedTier("resting_heart_rate", 55) = "warning"
    /\ ClaimedTier("resting_heart_rate", 45) = "critical"
    /\ ClaimedTier("resting_heart_rate", 110) = "warning"
    /\ ClaimedTier("resting_heart_rate", 50) = "critical"
    /\ ClaimedTier("resting_heart_rate", 120) = "critical"
    /\ ClaimedTier("resting_heart_rate", 60) = "warning"
    /\ ClaimedTier("resting_heart_rate", 100) = "warning"
    /\ \A v \in {85, 55, 45, 110, 50, 120, 60, 100} :
          (summary.latest_heart_rate = Some(v) /\ status # NoStatus)
             => status.hr_status = ClaimedTier("resting_heart_rate", v)

\* C19: a value outside every configured interval of its metric, and a value
\* of a metric without a table, has the status unclassified, never normal.
C19_OutsideIntervalsUnclassified ==
    status # NoStatus =>
       /\ \A v \in HeartRates :
             (summary.latest_heart_rate = Some(v)
                /\ ClaimedTier("resting_heart_rate", v) = "unclassified")
                   => status.hr_status = "unclassified"
       /\ ClaimedTier("steps", summary.recent_activity) = "unclassified"
             => status.activity_status = "unclassified"

\* The severities of an Alert
Severities == {"low", "medium", "high", "critical"}

\* C20: every stored Alert has a severity among low, medium, high, critical,
\* and an Alert on the resting heart rate exists only for a trigger value of
\* tier critical, with severity critical, or of tier warning, with severity
\* high or medium, and carries its trigger_value and normal_range; a value of
\* tier normal or unclassified has no Alert.
C20_AlertSeverityFromTier ==
    \A id \in DOMAIN alerts :
        /\ alerts[id].severity \in Severities
        /\ alerts[id].alert_type = "high_heart_rate" =>
              /\ alerts[id].trigger_value # None
              /\ alerts[id].normal_range # None
              /\ LET tier == ClaimedTier("resting_heart_rate", alerts[id].trigger_value[1])
                 IN  /\ tier \in {"critical", "warning"}
                     /\ tier = "critical" => alerts[id].severity = "critical"
                     /\ tier = "warning" => alerts[id].severity \in {"high", "medium"}

-----------------------------------------------------------------------------
(* Claims about the assignments and the aggregation queries *)

\* C21: every patient has at most one assignment with is_primary = true,
\* after any sequence of assign_patient_to_clinician calls.
C21_AtMostOnePrimary ==
    \A i \in DOMAIN assignments, j \in DOMAIN assignments :
        (/\ assignments[i].patient_id = assignments[j].patient_id
         /\ assignments[i].is_primary
         /\ assignments[j].is_primary) => i = j

\* The patients assigned to a clinician
AssignedPatients(clinician_id) ==
    { assignments[i].patient_id :
        i \in { j \in DOMAIN assignments : assignments[j].clinician_id = clinician_id } }

\* The unresolved alerts of the patients assigned to a clinician
OpenAlertsOf(clinician_id) ==
    { i \in DOMAIN alerts :
        ~alerts[i].is_resolved /\ alerts[i].patient_id \in AssignedPatients(clinician_id) }

\* The rows of a patient in the wearable table
RowsOf(patient_id) == { i \in DOMAIN wearable : wearable[i].patient_id = patient_id }

\* C22: no aggregation query raises; the report of an unknown patient is
\* empty; the report of a patient with no row that has a heart rate (an HRV)
\* has no average heart rate (HRV), and it has zero symptom reports and no
\* alerts when there are none; the stats of a clinician without patients are
\* zeros and empty counts; the health summary of a patient without rows and
\* without biomarkers has no heart rate and zero data points.
C22_NoDataResults ==
    [][last' # last =>
        /\ last'.ret # "ZeroDivisionError"
        /\ last'.op = "generate_patient_report" =>
             LET r == last'.report
                 p == last'.patient_id
             IN  IF p \notin Patients THEN DOMAIN r = {}
                 ELSE /\ DOMAIN r # {}
                      /\ r.summary.symptom_reports = 0
                      /\ (\A i \in RowsOf(p) : ~Truthy(wearable[i].heart_rate))
                            => r.summary.average_heart_rate = None
                      /\ (\A i \in RowsOf(p) : ~Truthy(wearable[i].hrv_rmssd))
                            => r.summary.average_hrv = None
                      /\ RowsOf(p) = {} => r.summary.data_points = 0
                      /\ (\A i \in DOMAIN alerts : alerts[i].patient_id # p)
                            => r.alerts = {}
        /\ last'.op = "get_clinician_dashboard_stats" =>
             (AssignedPatients(last'.clinician_id) = {} =>
                 /\ last'.stats.total_patients = 0
                 /\ last'.stats.active_alerts = 0
                 /\ last'.stats.recent_data_points = 0
                 /\ last'.stats.high_risk_patients = 0
                 /\ DOMAIN last'.stats.status_counts = {}
                 /\ DOMAIN last'.stats.risk_counts = {})
        /\ last'.op = "get_patient_health_summary" =>
             /\ (\A i \in DOMAIN biomarkers : biomarkers[i].patient_id # last'.patient_id)
                   => last'.summary.latest_heart_rate = None
             /\ RowsOf(last'.patient_id) = {} =>
                   /\ last'.summary.data_points_count = 0
                   /\ last'.summary.recent_activity.num = 0
             /\ last'.summary.latest_symptoms = None]_vars

\* C22's case: the report of a patient whose rows have no heart rate and a
\* zero HRV
C22_Witness ==
    /\ last.op = "generate_patient_report"
    /\ last.patient_id = "p1"
    /\ last.report.summary.data_points = MaxSamples
    /\ last.report.summary.average_heart_rate = None
    /\ last.report.summary.average_hrv = None

\* The aggregation queries of the clinician's pages
AggregationQueries ==
    {"get_clinician_dashboard_stats", "generate_patient_report", "get_active_alerts"}

\* C27: a call of the dashboard stats, of the patient report or of the active
\* alerts leaves the alerts, the wearable rows, the biomarkers, the
\* assignments and the session as they were.
C27_QueriesReadOnly ==
    [][(last' # last /\ last'.op \in AggregationQueries) =>
          /\ alerts' = alerts
          /\ wearable' = wearable
          /\ biomarkers' = biomarkers
          /\ assignments' = assignments
          /\ session' = session]_vars

\* C27's case: a report over stored rows and alerts of an assigned patient, in
\* a session that holds a token
C27_Witness ==
    /\ last.op = "generate_patient_report"
    /\ DOMAIN last.report # {}
    /\ last.report.alerts # {}
    /\ \A i \in last.report.alerts : ~alerts[i].is_resolved
    /\ last.report.summary.data_points > 0
    /\ assignments # <<>>
    /\ "fitbit_token" \in DOMAIN session

\* C28: the active_alerts of a clinician's dashboard stats is the number of
\* unresolved alerts of the patients assigned to the clinician, each alert
\* counted once however many assignments its patient has.
C28_OpenAlertCount ==
    [][(last' # last /\ last'.op = "get_clinician_dashboard_stats") =>
          last'.stats.active_alerts = Cardinality(OpenAlertsOf(last'.clinician_id))]_vars

=============================================================================
